---- MODULE Spec2Model ----
(***************************************************************************)
(* The healthkey_protocol program (programs/healthkey_protocol/src/lib.rs) *)
(* as a state machine over a ledger of accounts.                           *)
(*                                                                         *)
(* An invocation is loaded by the ledger (Schedule: the accounts it names  *)
(* are locked and read), executed as a whole (Execute: account validation  *)
(* in the order the Accounts structs generate it, then the handler body,   *)
(* then commit or abort) and returned to the caller (Retire).              *)
(***************************************************************************)
EXTENDS Integers, Sequences, FiniteSets, TLC

VARIABLES
    ledger,     \* address -> account : the committed state of the ledger
    clock,      \* Clock::get()?.unix_timestamp
    phase,      \* slot -> "idle" | "running" | "done"
    tx,         \* slot -> the invocation the slot holds (NoTx when idle)
    snap,       \* slot -> the accounts as loaded when the invocation was scheduled
    result      \* slot -> outcome of the executed invocation

vars == <<ledger, clock, phase, tx, snap, result>>

----------------------------------------------------------------------------
(* Bounds of the model *)

MaxVault == 2       \* tokens held by each vault token account at deployment
MaxLamports == 2    \* accounts the wealthier user can pay the rent of
MaxClock == 1       \* the clock advances up to this timestamp

(* Program constants *)

MaxBump == 255          \* find_program_address starts its search at bump 255
FieldCap == 100         \* bytes reserved per string in `space`
AtaRent == 1            \* lamports the payer is debited for a new token account
ProfileRent == 1        \* lamports the payer is debited for a new profile

----------------------------------------------------------------------------
(* Identities *)

Users == {"u1", "u2"}
Mints == {"m1", "m2"}
Attacker == "attacker"      \* a wallet that is neither a user nor derived
Slots == {1, 2}

OK == "Ok"

----------------------------------------------------------------------------
(* Program-derived addresses.  The hash is a stand-in: what matters is     *)
(* that an address is a function of (seeds, bump), that some bumps give an *)
(* on-curve (unusable) point, and that the search runs from 255 downwards. *)

SeedCode(s) ==
    CASE s = "vault" -> 1
      [] s = "user_profile" -> 2
      [] s = "u1" -> 3
      [] s = "u2" -> 4
      [] OTHER -> 6

RECURSIVE SeedSum(_)
SeedSum(seeds) ==
    IF seeds = <<>> THEN 0 ELSE SeedCode(Head(seeds)) + 2 * SeedSum(Tail(seeds))

OnCurve(seeds, bump) == ((SeedSum(seeds) * 7 + bump * 3) % 5) < 2

RECURSIVE JoinSeeds(_)
JoinSeeds(seeds) ==
    IF seeds = <<>> THEN "" ELSE Head(seeds) \o "/" \o JoinSeeds(Tail(seeds))

PdaAddress(seeds, bump) == "pda:" \o JoinSeeds(seeds) \o ToString(bump)

NoAddress == "none"

\* Pubkey::create_program_address: fails when the point is on the curve
CreateProgramAddress(seeds, bump) ==
    IF OnCurve(seeds, bump) THEN NoAddress ELSE PdaAddress(seeds, bump)

RECURSIVE FindBump(_, _)
FindBump(seeds, bump) ==
    IF bump < 0 THEN -1
    ELSE IF CreateProgramAddress(seeds, bump) # NoAddress THEN bump
    ELSE FindBump(seeds, bump - 1)

\* Pubkey::find_program_address: the first bump from 255 down that is valid
FindProgramAddress(seeds) ==
    LET b == FindBump(seeds, MaxBump)
    IN [address |-> IF b < 0 THEN NoAddress ELSE PdaAddress(seeds, b), bump |-> b]

VaultSeeds == <<"vault">>
ProfileSeeds(authority) == <<"user_profile", authority>>

VaultAuthority == FindProgramAddress(VaultSeeds).address
ProfileAddress(u) == FindProgramAddress(ProfileSeeds(u)).address

\* an address derived from the same tag with a bump that is not the canonical one
NonCanonicalVault ==
    LET b == FindBump(VaultSeeds, FindProgramAddress(VaultSeeds).bump - 1)
    IN PdaAddress(VaultSeeds, b)

\* get_associated_token_address(wallet, mint)
AssociatedTokenAddress(wallet, mint) == "ata:" \o wallet \o "/" \o mint

----------------------------------------------------------------------------
(* Accounts *)

System(l) == [kind |-> "system", lamports |-> l]
MintAccount(s) == [kind |-> "mint", supply |-> s]
TokenAccount(m, o, a) == [kind |-> "token", mint |-> m, owner |-> o, amount |-> a]
UserProfile(a, h, g, t) ==
    [kind |-> "profile", authority |-> a, arweave_hash |-> h, goal |-> g, created_at |-> t]

\* token accounts that are not at an associated address
AuxVault == "aux:vault"     \* (m1, VaultAuthority), the right pair at another address
AuxUser == "aux:u1"         \* (m1, u1), the right pair at another address

Wallets == Users \cup {Attacker}
Owners == Users \cup {VaultAuthority}
AtaAddrs == {AssociatedTokenAddress(o, m) : o \in Owners, m \in Mints}
TokenAddrs == AtaAddrs \cup {AuxVault, AuxUser}
ProfileAddrs == {ProfileAddress(u) : u \in Users}
Addrs == Wallets \cup Mints \cup TokenAddrs \cup ProfileAddrs

\* a string is its byte length (the program never reads the bytes)
StrLens == {FieldCap - 1, FieldCap + 1}

\* space = 8 + 32 + 4 + 100 + 4 + 100 + 8
ProfileSpace == 8 + 32 + 4 + FieldCap + 4 + FieldCap + 8

\* Borsh size of a UserProfile behind its 8-byte discriminator
SerializedSize(p) == 8 + 32 + (4 + p.arweave_hash) + (4 + p.goal) + 8

----------------------------------------------------------------------------
(* Invocations *)

NoTx == [op |-> "none"]

RewardTx(s, va, m, u, uta, vta, amt) ==
    [op |-> "reward_user", signer |-> s, vault_authority |-> va, mint |-> m,
     user |-> u, user_token_account |-> uta, vault_token_account |-> vta,
     amount |-> amt]

ProfileTx(s, pa, a, h, g) ==
    [op |-> "initialize_user_profile", signer |-> s, user_profile |-> pa,
     authority |-> a, arweave_hash |-> h, goal |-> g]

\* the binding a client derives for (user, mint)
CanonicalReward(u, m, amt) ==
    RewardTx(u, VaultAuthority, m, u, AssociatedTokenAddress(u, m),
             AssociatedTokenAddress(VaultAuthority, m), amt)

----------------------------------------------------------------------------
(* Execution context: the working copy of the accounts, the first error,   *)
(* the bump found by validation and the checks and writes done so far.     *)

Check(what) == [kind |-> "check", what |-> what]
Write(what) == [kind |-> "write", what |-> what]

Begin(L) == [L |-> L, err |-> OK, bump |-> -1, trace |-> <<>>]

Require(c, cond, what, e) ==
    IF c.err # OK THEN c
    ELSE IF cond THEN [c EXCEPT !.trace = Append(@, Check(what))]
    ELSE [c EXCEPT !.trace = Append(@, Check(what)), !.err = e]

Store(c, what, L2) ==
    IF c.err # OK THEN c
    ELSE [c EXCEPT !.trace = Append(@, Write(what)), !.L = L2]

Debit(L, payer, n) == [L EXCEPT ![payer] = System(@.lamports - n)]

----------------------------------------------------------------------------
(* RewardUser<'info>: account validation, in the order the derive emits    *)
(* it: every field without `init` is deserialized in declaration order,    *)
(* then the init_if_needed field is created or loaded, then the            *)
(* constraints of the other fields are checked in declaration order.       *)

\* pub mint: Account<'info, Mint>
DeserMint(c, t) ==
    Require(c, c.L[t.mint].kind = "mint", "mint", "AccountMismatch")

\* `user` taken as a plain account: nobody has to sign for it
DeserUserUnsigned(c, t) ==
    Require(c, t.user \in Users, "user_signer", "AccountMismatch")

\* pub user: Signer<'info>
DeserUser(c, t) ==
    Require(c, t.user = t.signer, "user_signer", "AccountMismatch")

\* pub vault_token_account: Account<'info, TokenAccount>
DeserVaultToken(c, t) ==
    Require(c, c.L[t.vault_token_account].kind = "token",
            "vault_token_account", "AccountMismatch")

\* the associated token program's create, paid by `payer`
CreateAssociatedToken(c, payer, addr, wallet, mint) ==
    LET c1 == Require(c, addr = AssociatedTokenAddress(wallet, mint),
                      "ata_address", "AccountMismatch")
        c2 == Require(c1, c.L[payer].lamports >= AtaRent,
                      "payer_lamports", "InsufficientLamports")
    IN Store(c2, "create_token_account",
             [Debit(c.L, payer, AtaRent) EXCEPT ![addr] = TokenAccount(mint, wallet, 0)])

\* payer = a fixed wallet instead of payer = user
InitUserTokenSharedPayer(c, t) ==
    LET a == t.user_token_account
    IN IF c.err # OK \/ c.L[a].kind # "system" THEN c
       ELSE LET c1 == CreateAssociatedToken(c, "u1", a, t.user, t.mint)
            IN c1

\* plain `init`: the account is created on every call
InitUserTokenAlways(c, t) ==
    LET c1 == Require(c, c.L[t.user_token_account].kind = "system",
                      "user_token_absent", "AlreadyExists")
    IN IF c1.err # OK THEN c1
       ELSE CreateAssociatedToken(c1, t.user, t.user_token_account, t.user, t.mint)

\* init_if_needed, payer = user, associated_token::mint = mint,
\* associated_token::authority = user
InitUserTokenIfNeeded(c, t) ==
    LET a == t.user_token_account
        acc == c.L[a]
    IN IF c.err # OK THEN c
       ELSE IF acc.kind = "system"
       THEN CreateAssociatedToken(c, t.user, a, t.user, t.mint)
       ELSE LET c1 == Require(c, acc.kind = "token", "user_token_account", "AccountMismatch")
                c2 == Require(c1, acc.mint = t.mint, "user_token_mint", "AccountMismatch")
                c3 == Require(c2, acc.owner = t.user, "user_token_owner", "AccountMismatch")
            IN Require(c3, a = AssociatedTokenAddress(t.user, t.mint),
                       "user_token_address", "AccountMismatch")

\* bump = a bump the caller chooses: any address derived from the tag passes
CheckVaultAuthorityAnyBump(c, t) ==
    LET valid == {b \in 0 .. MaxBump : CreateProgramAddress(VaultSeeds, b) = t.vault_authority}
        c1 == Require(c, valid # {}, "vault_seeds", "DerivationMismatch")
    IN IF c1.err # OK THEN c1 ELSE [c1 EXCEPT !.bump = CHOOSE b \in valid : TRUE]

\* the authority account taken as given, without the seeds constraint
CheckVaultAuthorityUnchecked(c, t) ==
    IF c.err # OK THEN c ELSE [c EXCEPT !.bump = FindProgramAddress(VaultSeeds).bump]

\* seeds = [b"vault"], bump
CheckVaultAuthority(c, t) ==
    LET pda == FindProgramAddress(VaultSeeds)
        c1 == Require(c, t.vault_authority = pda.address, "vault_seeds", "DerivationMismatch")
    IN IF c1.err # OK THEN c1 ELSE [c1 EXCEPT !.bump = pda.bump]

\* token::authority in place of associated_token::authority: the owner is
\* checked, the address is not
CheckVaultTokenOwnerOnly(c, t) ==
    Require(c, c.L[t.vault_token_account].owner = t.vault_authority,
            "vault_token_owner", "AccountMismatch")

\* mut, associated_token::mint = mint, associated_token::authority = vault_authority
CheckVaultToken(c, t) ==
    LET acc == c.L[t.vault_token_account]
        c1 == Require(c, acc.owner = t.vault_authority, "vault_token_owner", "AccountMismatch")
    IN Require(c1, t.vault_token_account = AssociatedTokenAddress(t.vault_authority, t.mint),
               "vault_token_address", "AccountMismatch")

RewardUserAccounts(c, t) ==
    LET c1 == DeserMint(c, t)
        c2 == DeserUser(c1, t)
        c3 == DeserVaultToken(c2, t)
        c4 == InitUserTokenIfNeeded(c3, t)
        c5 == CheckVaultAuthority(c4, t)
    IN CheckVaultToken(c5, t)

----------------------------------------------------------------------------
(* The token program's transfer, invoked with signer seeds.  Amounts are   *)
(* u64; the balances of a mint never add up to more than its supply, so   *)
(* the credit cannot overflow and is modelled without its checked_add.    *)

\* a transfer that does not look at the source's balance
TokenTransferNoFundsCheck(c, from, to, authority, seeds, bump, amount) ==
    LET c1 == Require(c, CreateProgramAddress(seeds, bump) = authority,
                      "transfer_signer", "MissingSigner")
    IN Store(c1, "transfer",
             [c.L EXCEPT ![from].amount = @ - amount, ![to].amount = @ + amount])

\* a transfer that credits the destination and forgets to debit the source
TokenTransferNoDebit(c, from, to, authority, seeds, bump, amount) ==
    IF c.err # OK THEN c
    ELSE Store(Require(c, c.L[from].amount >= amount, "vault_balance", "InsufficientFunds"),
               "transfer", [c.L EXCEPT ![to].amount = @ + amount])

TokenTransfer(c, from, to, authority, seeds, bump, amount) ==
    LET c1 == Require(c, CreateProgramAddress(seeds, bump) = authority,
                      "transfer_signer", "MissingSigner")
        c2 == Require(c1, c.L[from].amount >= amount, "vault_balance", "InsufficientFunds")
        c3 == Require(c2, c.L[from].mint = c.L[to].mint, "transfer_mint", "AccountMismatch")
        c4 == Require(c3, c.L[from].owner = authority, "transfer_owner", "AccountMismatch")
    IN Store(c4, "transfer",
             IF from = to THEN c.L
             ELSE [c.L EXCEPT ![from].amount = @ - amount, ![to].amount = @ + amount])

\* the body with the transfer made before the amount is looked at
RewardUserBodyTransferFirst(c, t) ==
    LET c1 == TokenTransfer(c, t.vault_token_account, t.user_token_account,
                            t.vault_authority, VaultSeeds, c.bump, t.amount)
    IN Require(c1, t.amount > 0, "amount", "InvalidAmount")

\* the body without its require!(amount > 0)
RewardUserBodyNoRequire(c, t) ==
    IF c.err # OK THEN c
    ELSE TokenTransfer(c, t.vault_token_account, t.user_token_account,
                       t.vault_authority, VaultSeeds, c.bump, t.amount)

\* the body presenting the tag without the bump found by validation
RewardUserBodyWrongSeeds(c, t) ==
    LET c1 == Require(c, t.amount > 0, "amount", "InvalidAmount")
    IN IF c1.err # OK THEN c1
       ELSE TokenTransfer(c1, t.vault_token_account, t.user_token_account,
                          t.vault_authority, VaultSeeds, c1.bump - 1, t.amount)

\* pub fn reward_user(ctx, amount)
RewardUserBody(c, t) ==
    LET c1 == Require(c, t.amount > 0, "amount", "InvalidAmount")
    IN IF c1.err # OK THEN c1
       ELSE TokenTransfer(c1, t.vault_token_account, t.user_token_account,
                          t.vault_authority, VaultSeeds, c1.bump, t.amount)

RewardUser(L, t) == RewardUserBody(RewardUserAccounts(Begin(L), t), t)

----------------------------------------------------------------------------
(* InitializeUserProfile<'info> and initialize_user_profile *)

\* `authority` taken as a plain account: nobody has to sign for it
DeserAuthorityUnsigned(c, t) ==
    Require(c, t.authority \in Users, "authority_signer", "AccountMismatch")

\* pub authority: Signer<'info>
DeserAuthority(c, t) ==
    Require(c, t.authority = t.signer, "authority_signer", "AccountMismatch")

\* init_if_needed in place of init: an existing profile is loaded, not refused
InitUserProfileIfNeeded(c, t) ==
    LET a == t.user_profile
        c1 == Require(c, a = FindProgramAddress(ProfileSeeds(t.authority)).address,
                      "profile_seeds", "DerivationMismatch")
    IN IF c1.err # OK \/ c.L[a].kind = "profile" THEN c1
       ELSE Store(Require(c1, c.L[t.authority].lamports >= ProfileRent,
                          "payer_lamports", "InsufficientLamports"),
                  "create_profile",
                  [Debit(c.L, t.authority, ProfileRent) EXCEPT
                      ![a] = UserProfile(NoAddress, 0, 0, 0)])

\* seeds = [b"user_profile"] with a caller-chosen address: the record is not
\* tied to the authority
InitUserProfileAnySeeds(c, t) ==
    LET a == t.user_profile
        c1 == Require(c, a \in ProfileAddrs, "profile_seeds", "DerivationMismatch")
        c2 == Require(c1, c.L[a].kind = "system", "profile_absent", "AlreadyExists")
        c3 == Require(c2, c.L[t.authority].lamports >= ProfileRent,
                      "payer_lamports", "InsufficientLamports")
    IN Store(c3, "create_profile",
             [Debit(c.L, t.authority, ProfileRent) EXCEPT
                 ![a] = UserProfile(NoAddress, 0, 0, 0)])

\* init, payer = authority, space, seeds = [b"user_profile", authority.key()], bump
InitUserProfile(c, t) ==
    LET a == t.user_profile
        pda == FindProgramAddress(ProfileSeeds(t.authority))
        c1 == Require(c, a = pda.address, "profile_seeds", "DerivationMismatch")
        c2 == Require(c1, c.L[a].kind = "system", "profile_absent", "AlreadyExists")
        c3 == Require(c2, c.L[t.authority].lamports >= ProfileRent,
                      "payer_lamports", "InsufficientLamports")
    IN Store(c3, "create_profile",
             [Debit(c.L, t.authority, ProfileRent) EXCEPT
                 ![a] = UserProfile(NoAddress, 0, 0, 0)])

InitializeUserProfileAccounts(c, t) == InitUserProfile(DeserAuthority(c, t), t)

\* pub fn initialize_user_profile(ctx, arweave_hash, goal)
InitializeUserProfileBody(c, t, now) ==
    Store(c, "set_profile",
          [c.L EXCEPT ![t.user_profile] =
              UserProfile(t.authority, t.arweave_hash, t.goal, now)])

\* on exit the account is serialized into the `space` allocated for it
ExitUserProfile(c, t) ==
    Require(c, SerializedSize(c.L[t.user_profile]) <= ProfileSpace,
            "profile_serialize", "DidNotSerialize")

InitializeUserProfile(L, t, now) ==
    ExitUserProfile(
        InitializeUserProfileBody(InitializeUserProfileAccounts(Begin(L), t), t, now), t)

----------------------------------------------------------------------------
(* One invocation as the ledger runs it *)

Run(L, t, now) ==
    IF t.op = "reward_user" THEN RewardUser(L, t)
    ELSE InitializeUserProfile(L, t, now)

\* accounts the invocation may write (and locks for writing)
Writable(t) ==
    IF t.op = "reward_user"
    THEN {t.user, t.user_token_account, t.vault_token_account}
    ELSE IF t.op = "initialize_user_profile" THEN {t.user_profile, t.authority}
    ELSE {}

\* accounts the invocation only reads
ReadOnly(t) ==
    IF t.op = "reward_user" THEN {t.mint, t.vault_authority} \ Writable(t) ELSE {}

\* a ledger that takes no locks
NoConflict(t1, t2) == FALSE

Conflict(t1, t2) ==
    \/ Writable(t1) \cap (Writable(t2) \cup ReadOnly(t2)) # {}
    \/ Writable(t2) \cap ReadOnly(t1) # {}

\* what was written is kept even when the invocation failed
CommitPartial(L, t, r) ==
    [a \in Addrs |-> IF a \in Writable(t) THEN r.L[a] ELSE L[a]]

\* all or nothing: the writable accounts of a successful run, else nothing
Commit(L, t, r) ==
    IF r.err = OK
    THEN [a \in Addrs |-> IF a \in Writable(t) THEN r.L[a] ELSE L[a]]
    ELSE L

----------------------------------------------------------------------------------------------------------------------------------------
(* Inputs.  A caller names every account itself.  The reward invocations   *)
(* explored are the binding a client derives for (user, mint), with at     *)
(* most one of signer, mint, user token account and vault token account    *)
(* replaced by another account, each with the derived and with a forged    *)
(* vault authority.                                                        *)

Other(u) == CHOOSE v \in Users : v # u
OtherMint(m) == CHOOSE n \in Mints : n # m

AuthorityInputs == {VaultAuthority, NonCanonicalVault, Attacker}
MintInputs == Mints \cup {Attacker}
AmountInputs == 0 .. (MaxVault + 1)

UserTokenInputs(u, m) ==
    {AssociatedTokenAddress(u, m), AssociatedTokenAddress(Other(u), m),
     AssociatedTokenAddress(u, OtherMint(m)),
     AssociatedTokenAddress(VaultAuthority, m), AuxUser}

VaultTokenInputs(u, m) ==
    {AssociatedTokenAddress(VaultAuthority, m),
     AssociatedTokenAddress(VaultAuthority, OtherMint(m)),
     AssociatedTokenAddress(u, m), AuxVault}

Substitutions(t) ==
    {t}
    \cup {[t EXCEPT !.signer = s] : s \in Users}
    \cup {[t EXCEPT !.mint = m] : m \in MintInputs}
    \cup {[t EXCEPT !.user_token_account = a] : a \in UserTokenInputs(t.user, t.mint)}
    \cup {[t EXCEPT !.vault_token_account = a] : a \in VaultTokenInputs(t.user, t.mint)}

CanonicalRewards ==
    {CanonicalReward(u, m, amt) : u \in Users, m \in Mints, amt \in AmountInputs}

RewardInputs ==
    UNION {{[t EXCEPT !.vault_authority = va] : va \in AuthorityInputs, t \in Substitutions(c)} :
             c \in CanonicalRewards}

CanonicalProfile(u, h, g) == ProfileTx(u, ProfileAddress(u), u, h, g)

CanonicalProfiles == {CanonicalProfile(u, FieldCap - 1, FieldCap - 1) : u \in Users}

ProfileInputs ==
    {ProfileTx(s, pa, a, h, g) :
        s \in Users, pa \in ProfileAddrs, a \in Users, h \in StrLens, g \in StrLens}

----------------
(* State machine *)

NoResult == [err |-> "none"]

\* one user can pay for MaxLamports accounts, the other for a single one
InitialLamports(u) == IF u = "u1" THEN MaxLamports * AtaRent ELSE AtaRent

Init ==
    /\ ledger = [a \in Addrs |->
          IF a \in Users THEN System(InitialLamports(a))
          ELSE IF a = Attacker THEN System(0)
          ELSE IF a \in Mints THEN MintAccount(MaxVault + 2)
          ELSE IF a \in {AssociatedTokenAddress(VaultAuthority, m) : m \in Mints}
               THEN TokenAccount(CHOOSE m \in Mints : a = AssociatedTokenAddress(VaultAuthority, m),
                                 VaultAuthority, MaxVault)
          ELSE IF a = AuxVault THEN TokenAccount("m1", VaultAuthority, 1)
          ELSE IF a = AuxUser THEN TokenAccount("m1", "u1", 1)
          ELSE System(0)]
    /\ clock = 0
    /\ phase = [s \in Slots |-> "idle"]
    /\ tx = [s \in Slots |-> NoTx]
    /\ snap = [s \in Slots |-> <<>>]
    /\ result = [s \in Slots |-> NoResult]

\* the ledger takes an invocation whose locks are free and loads its accounts
Schedule(s, t) ==
    /\ phase[s] = "idle"
    /\ \A o \in Slots \ {s} : phase[o] = "running" => ~Conflict(t, tx[o])
    /\ phase' = [phase EXCEPT ![s] = "running"]
    /\ tx' = [tx EXCEPT ![s] = t]
    /\ snap' = [snap EXCEPT ![s] = ledger]
    /\ UNCHANGED <<ledger, clock, result>>

\* the invocation runs on what it loaded and its writable accounts are stored
Execute(s) ==
    /\ phase[s] = "running"
    /\ LET r == Run(snap[s], tx[s], clock)
       IN /\ ledger' = Commit(ledger, tx[s], r)
          /\ result' = [result EXCEPT ![s] = r]
    /\ phase' = [phase EXCEPT ![s] = "done"]
    /\ UNCHANGED <<clock, tx, snap>>

\* the outcome is returned and the slot is free again
Retire(s) ==
    /\ phase[s] = "done"
    /\ phase' = [phase EXCEPT ![s] = "idle"]
    /\ tx' = [tx EXCEPT ![s] = NoTx]
    /\ snap' = [snap EXCEPT ![s] = <<>>]
    /\ result' = [result EXCEPT ![s] = NoResult]
    /\ UNCHANGED <<ledger, clock>>

Tick ==
    /\ clock < MaxClock
    /\ clock' = clock + 1
    /\ UNCHANGED <<ledger, phase, tx, snap, result>>

(* Spec: reward_user under every input above, beside the profiles clients  *)
(* create for themselves.                                                  *)

SubmitReward == \E t \in RewardInputs : Schedule(1, t)
SubmitProfile == \E t \in CanonicalProfiles : Schedule(1, t)

Next ==
    \/ SubmitReward
    \/ SubmitProfile
    \/ Execute(1)
    \/ Retire(1)

Spec == Init /\ [][Next]_vars

(* SpecProfile: initialize_user_profile under every input above, while the *)
(* clock advances, beside the rewards clients claim for themselves.        *)

SubmitAnyProfile == \E t \in ProfileInputs : Schedule(1, t)
SubmitCanonicalReward ==
    \E u \in Users, m \in Mints : Schedule(1, CanonicalReward(u, m, MaxVault))

NextProfile ==
    \/ SubmitAnyProfile
    \/ SubmitCanonicalReward
    \/ Execute(1)
    \/ Retire(1)
    \/ Tick

SpecProfile == Init /\ [][NextProfile]_vars

(* SpecConc: two invocations in flight.  The ledger runs together only     *)
(* invocations whose locks do not conflict; each runs on the accounts it   *)
(* loaded and stores the ones it may write; the batch ends when no         *)
(* invocation is running.                                                  *)

ConcInputs ==
    {[t EXCEPT !.vault_authority = va] :
        t \in CanonicalRewards, va \in {VaultAuthority, Attacker}}

ScheduleConc == \E s \in Slots : \E t \in ConcInputs : Schedule(s, t)
ExecuteConc == \E s \in Slots : Execute(s)
EndBatch ==
    /\ \A s \in Slots : phase[s] # "running"
    /\ \E s \in Slots : phase[s] = "done"
    /\ phase' = [s \in Slots |-> "idle"]
    /\ tx' = [s \in Slots |-> NoTx]
    /\ snap' = [s \in Slots |-> <<>>]
    /\ result' = [s \in Slots |-> NoResult]
    /\ UNCHANGED <<ledger, clock>>

NextConc ==
    \/ ScheduleConc
    \/ ExecuteConc
    \/ EndBatch

SpecConc == Init /\ [][NextConc]_vars

----------------------------------------------------------------------------
(* What the claims speak of.  In a state where slot 1 is done, snap[1] is  *)
(* the ledger the invocation found, result[1] its outcome and working     *)
(* copy, and ledger what it left.                                          *)

DoneReward == phase[1] = "done" /\ tx[1].op = "reward_user"
DoneProfile == phase[1] = "done" /\ tx[1].op = "initialize_user_profile"

IsToken(L, a) == a \in Addrs /\ L[a].kind = "token"
Balance(L, a) == IF IsToken(L, a) THEN L[a].amount ELSE 0

RECURSIVE SumOver(_, _)
SumOver(L, S) ==
    IF S = {} THEN 0
    ELSE LET a == CHOOSE x \in S : TRUE IN Balance(L, a) + SumOver(L, S \ {a})

\* tokens of mint m held by all token accounts
TokenTotal(L, m) == SumOver(L, {a \in TokenAddrs : IsToken(L, a) /\ L[a].mint = m})

BalancesUnchanged(L1, L2) == \A a \in TokenAddrs : L1[a] = L2[a]

\* the account bindings section 4.2 of the design asks for
ValidBindings(L, t) ==
    /\ t.signer = t.user
    /\ t.vault_authority = VaultAuthority
    /\ t.mint \in Mints /\ L[t.mint].kind = "mint"
    /\ t.vault_token_account = AssociatedTokenAddress(VaultAuthority, t.mint)
    /\ IsToken(L, t.vault_token_account)
    /\ t.user_token_account = AssociatedTokenAddress(t.user, t.mint)

\* the payer can pay for the recipient's token account where it is missing
PayerFunded(L, t) ==
    IsToken(L, t.user_token_account) \/ L[t.user].lamports >= AtaRent

Last(seq) == seq[Len(seq)]

----------------------------------------------------------------------------
(* C1 *)

RewardPost(L0, t, r, L1) ==
    LET v == t.vault_token_account
        u == t.user_token_account
    IN /\ r.err = OK
       /\ L1[v].amount = L0[v].amount - t.amount
       /\ IsToken(L1, u)
       /\ L1[u].amount = Balance(L0, u) + t.amount
       /\ L1[v].amount + L1[u].amount = L0[v].amount + Balance(L0, u)
       /\ TokenTotal(L1, t.mint) = TokenTotal(L0, t.mint)
       /\ L1[t.mint] = L0[t.mint]

RewardPre(L0, t) ==
    /\ t.amount > 0
    /\ ValidBindings(L0, t)
    /\ L0[t.vault_token_account].amount >= t.amount

\* C1 as claimed: every reward_user with amount > 0, valid account bindings
\* and vault balance >= amount succeeds, debits the vault by amount, credits
\* the recipient by amount (from 0 when just created) and keeps the sum of
\* the two balances and the supply.
C1_AsClaimed ==
    (DoneReward /\ RewardPre(snap[1], tx[1]))
        => RewardPost(snap[1], tx[1], result[1], ledger)

\* C1 amended: the same, provided the payer holds the rent of the recipient's
\* token account when that account has to be created.
C1_RewardMovesAmount ==
    (DoneReward /\ RewardPre(snap[1], tx[1]) /\ PayerFunded(snap[1], tx[1]))
        => RewardPost(snap[1], tx[1], result[1], ledger)

\* a reward credited to an account that already held tokens, emptying the vault
C1_Witness ==
    /\ DoneReward /\ RewardPre(snap[1], tx[1]) /\ PayerFunded(snap[1], tx[1])
    /\ result[1].err = OK
    /\ IsToken(snap[1], tx[1].user_token_account)
    /\ snap[1][tx[1].user_token_account].amount > 0
    /\ ledger[tx[1].vault_token_account].amount = 0

----------------------------------------------------------------------------
(* C2 *)

AccountErrors == {"AccountMismatch", "DerivationMismatch", "InsufficientLamports"}

\* C2 as claimed: every reward_user with amount = 0, whatever the other
\* inputs, fails with InvalidAmount and leaves every token balance unchanged.
C2_AsClaimed ==
    (DoneReward /\ tx[1].amount = 0)
        => /\ result[1].err = "InvalidAmount"
           /\ BalancesUnchanged(snap[1], ledger)

\* C2 amended: every reward_user with amount = 0 fails and leaves every token
\* balance unchanged; the failure is InvalidAmount exactly when the account
\* bindings are valid and the payer can pay for a missing recipient account,
\* and otherwise the error of the account validation that runs first.
C2_ZeroAmountRejected ==
    (DoneReward /\ tx[1].amount = 0)
        => /\ result[1].err # OK
           /\ BalancesUnchanged(snap[1], ledger)
           /\ (result[1].err = "InvalidAmount")
                <=> (ValidBindings(snap[1], tx[1]) /\ PayerFunded(snap[1], tx[1]))
           /\ result[1].err \in AccountErrors \cup {"InvalidAmount"}

\* a zero amount rejected after the recipient's account was set up
C2_Witness ==
    /\ DoneReward /\ tx[1].amount = 0
    /\ result[1].err = "InvalidAmount"
    /\ ~IsToken(snap[1], tx[1].user_token_account)

----------------------------------------------------------------------------
(* C3 *)

\* what reward_user's validation looks at before the seeds of the authority
BeforeSeedsValid(L, t) ==
    /\ t.signer = t.user
    /\ L[t.mint].kind = "mint"
    /\ IsToken(L, t.vault_token_account)
    /\ t.user_token_account = AssociatedTokenAddress(t.user, t.mint)
    /\ \/ L[t.user_token_account].kind = "system" /\ L[t.user].lamports >= AtaRent
       \/ /\ IsToken(L, t.user_token_account)
          /\ L[t.user_token_account].mint = t.mint
          /\ L[t.user_token_account].owner = t.user

\* C3 as claimed: a vault authority that is not the address derived from
\* "vault" makes reward_user fail with DerivationMismatch whatever the other
\* inputs are, and nothing changes.
C3_AsClaimed ==
    (DoneReward /\ tx[1].vault_authority # VaultAuthority)
        => /\ result[1].err = "DerivationMismatch"
           /\ ledger = snap[1]

\* C3 amended: such an invocation always fails and changes nothing, whatever
\* the amount; it fails with DerivationMismatch exactly when the checks made
\* before the seeds check pass (signer, mint, vault token account a token
\* account, recipient account the associated one, present or creatable), and
\* with the error of the first of those checks otherwise.
C3_ForgedAuthorityRejected ==
    (DoneReward /\ tx[1].vault_authority # VaultAuthority)
        => /\ result[1].err # OK
           /\ ledger = snap[1]
           /\ (result[1].err = "DerivationMismatch") <=> BeforeSeedsValid(snap[1], tx[1])
           /\ result[1].err \in AccountErrors

\* a forged authority rejected, with amount zero, after the recipient's
\* account was set up in the working copy
C3_Witness ==
    /\ DoneReward /\ tx[1].vault_authority # VaultAuthority
    /\ result[1].err = "DerivationMismatch"
    /\ tx[1].amount = 0
    /\ result[1].L # snap[1]

----------------------------------------------------------------------------
(* C5 *)

Overdraw(L, t) ==
    /\ t.amount > 0
    /\ IsToken(L, t.vault_token_account)
    /\ L[t.vault_token_account].amount < t.amount

\* C5 as claimed: every reward_user with amount > 0 and vault balance <
\* amount fails with InsufficientFunds, raised by the token transfer, and
\* the vault and recipient balances stay as they were.
C5_AsClaimed ==
    (DoneReward /\ Overdraw(snap[1], tx[1]))
        => /\ result[1].err = "InsufficientFunds"
           /\ BalancesUnchanged(snap[1], ledger)

\* C5 amended: such an invocation always fails with the balances unchanged;
\* it fails with InsufficientFunds, raised by the balance check of the token
\* transfer, exactly when the account bindings are valid and the payer can
\* pay for a missing recipient account.
C5_OverdrawRejected ==
    (DoneReward /\ Overdraw(snap[1], tx[1]))
        => /\ result[1].err # OK
           /\ BalancesUnchanged(snap[1], ledger)
           /\ (result[1].err = "InsufficientFunds")
                <=> (ValidBindings(snap[1], tx[1]) /\ PayerFunded(snap[1], tx[1]))
           /\ result[1].err = "InsufficientFunds"
                => Last(result[1].trace) = Check("vault_balance")

\* an overdraw refused by the transfer after the recipient's account was set up
C5_Witness ==
    /\ DoneReward /\ Overdraw(snap[1], tx[1])
    /\ result[1].err = "InsufficientFunds"
    /\ ~IsToken(snap[1], tx[1].user_token_account)
    /\ snap[1][tx[1].vault_token_account].amount > 0

----------------------------------------------------------------------------
(* C6 *)

InitialTokenAddrs ==
    {AssociatedTokenAddress(VaultAuthority, m) : m \in Mints} \cup {AuxVault, AuxUser}

\* token accounts that exist in L2 and did not in L1
Created(L1, L2) == {a \in TokenAddrs : IsToken(L2, a) /\ ~IsToken(L1, a)}

\* token accounts made by rewards and bound to (u, m)
RewardAccounts(L, u, m) ==
    {a \in TokenAddrs \ InitialTokenAddrs :
        IsToken(L, a) /\ L[a].owner = u /\ L[a].mint = m}

\* C6: a successful reward_user for a recipient without a receiving account
\* creates exactly one token account, bound to (recipient, mint); whatever
\* calls follow there is only that one account for the pair, and a later
\* call for the pair succeeds on it and credits it instead of creating.
C6_GetOrCreate ==
    /\ \A u \in Users, m \in Mints :
          RewardAccounts(ledger, u, m) \subseteq {AssociatedTokenAddress(u, m)}
    /\ (DoneReward /\ result[1].err = OK) =>
          LET t == tx[1]
              a == t.user_token_account
          IN /\ a = AssociatedTokenAddress(t.user, t.mint)
             /\ ledger[a].owner = t.user /\ ledger[a].mint = t.mint
             /\ Created(snap[1], ledger) = IF IsToken(snap[1], a) THEN {} ELSE {a}
             /\ ledger[a].amount = Balance(snap[1], a) + t.amount
    /\ (DoneReward /\ RewardPre(snap[1], tx[1]) /\ IsToken(snap[1], tx[1].user_token_account))
          => result[1].err = OK

\* a second reward for the same recipient and mint, credited to the account
\* the first one created
C6_Witness ==
    /\ DoneReward /\ result[1].err = OK
    /\ tx[1].user_token_account \notin InitialTokenAddrs
    /\ IsToken(snap[1], tx[1].user_token_account)
    /\ ledger[tx[1].user_token_account].amount > tx[1].amount

----------------------------------------------------------------------------
(* C7 *)

\* C7: an invocation that fails, for whatever reason, leaves the whole ledger
\* as it found it, also when its working copy already held a new recipient
\* account and a debited payer; one that succeeds leaves all it wrote.
C7_AllOrNothing ==
    phase[1] = "done" =>
        /\ result[1].err # OK => ledger = snap[1]
        /\ result[1].err = OK => ledger = result[1].L

\* a reward that failed after the recipient's account was created on demand
C7_Witness ==
    /\ DoneReward /\ result[1].err \notin {OK, "none"}
    /\ Created(snap[1], result[1].L) = {tx[1].user_token_account}
    /\ result[1].L[tx[1].user].lamports < snap[1][tx[1].user].lamports
    /\ ledger = snap[1]

----------------------------------------------------------------------------
(* C8 *)

Position(trace, e) ==
    IF \E i \in 1 .. Len(trace) : trace[i] = e
    THEN CHOOSE i \in 1 .. Len(trace) : trace[i] = e
    ELSE 0

WriteBeforeCheck(trace) ==
    {i \in 1 .. Len(trace) :
        trace[i].kind = "write" /\ \E j \in (i + 1) .. Len(trace) : trace[j].kind = "check"}

BodyChecks ==
    {Check("vault_seeds"), Check("vault_token_owner"), Check("vault_token_address"),
     Check("amount"), Check("transfer_signer"), Check("vault_balance")}

\* C8 as claimed: within a reward_user no write, the on-demand creation of
\* the recipient's account included, precedes a precondition check, so no
\* effect is applied and then rolled back.
C8_AsClaimed ==
    DoneReward =>
        /\ WriteBeforeCheck(result[1].trace) = {}
        /\ result[1].err # OK => result[1].L = snap[1]

\* C8 amended: within a reward_user every precondition check (authority
\* derivation, vault binding, amount, signer, vault balance) precedes the
\* token transfer, which is the last step; the one write that precedes checks
\* is the on-demand creation of the recipient's account, made during account
\* validation before the authority, vault-binding, amount and balance checks,
\* and dropped by the ledger when one of them fails.
C8_ChecksBeforeTransfer ==
    DoneReward =>
        LET tr == result[1].trace
            xfer == Position(tr, Write("transfer"))
            made == Position(tr, Write("create_token_account"))
        IN /\ xfer # 0 => /\ xfer = Len(tr)
                          /\ \A e \in BodyChecks : 0 < Position(tr, e) /\ Position(tr, e) < xfer
           /\ \A i \in WriteBeforeCheck(tr) : i = made
           /\ made # 0 => \A e \in BodyChecks : Position(tr, e) = 0 \/ made < Position(tr, e)
           /\ (made # 0 /\ result[1].err # OK) => ledger = snap[1]
           /\ result[1].err = OK => xfer # 0

\* the recipient's account created, then the amount check failing
C8_Witness ==
    /\ DoneReward /\ result[1].err = "InvalidAmount"
    /\ Position(result[1].trace, Write("create_token_account")) # 0
    /\ result[1].L # snap[1]
    /\ ledger = snap[1]

----------------------------------------------------------------------------
(* C4 *)

\* a call an identity signs for its own profile
OwnProfileCall(t) ==
    t.signer = t.authority /\ t.user_profile = ProfileAddress(t.authority)

\* the two strings fit the space allocated for the record
ValidStrings(t) == SerializedSize(t) <= ProfileSpace

ProfileCreated(t, L1, now) ==
    /\ L1[t.user_profile].kind = "profile"
    /\ L1[t.user_profile].authority = t.authority
    /\ L1[t.user_profile].arweave_hash = t.arweave_hash
    /\ L1[t.user_profile].goal = t.goal
    /\ L1[t.user_profile].created_at \in 0 .. now

ProfileKept(L0, L1) ==
    \A a \in ProfileAddrs : L0[a].kind = "profile" => L1[a] = L0[a]

\* C4 as claimed: for every identity the first initialize_user_profile with
\* valid (content_pointer, goal) creates the profile, and every later call
\* of that identity, whatever its arguments, fails with AlreadyExists and
\* leaves the four fields of the profile as they were.
C4_AsClaimed ==
    (DoneProfile /\ OwnProfileCall(tx[1])) =>
        LET t == tx[1]
            fresh == snap[1][t.user_profile].kind = "system"
        IN /\ (fresh /\ ValidStrings(t)) =>
                  result[1].err = OK /\ ProfileCreated(t, ledger, clock)
           /\ ~fresh => result[1].err = "AlreadyExists" /\ ProfileKept(snap[1], ledger)

\* C4 amended: for every identity initialize_user_profile succeeds at most
\* once; the first call with valid (content_pointer, goal), made by a signer
\* that holds the rent of the record, creates the profile, and every later
\* call of that identity, whatever its arguments, fails with AlreadyExists;
\* no call, by anyone, modifies a field of an existing profile.
C4_ProfileOnce ==
    DoneProfile =>
        LET t == tx[1]
            fresh == snap[1][t.user_profile].kind = "system"
        IN /\ ProfileKept(snap[1], ledger)
           /\ result[1].err = OK => fresh /\ ProfileCreated(t, ledger, clock)
           /\ OwnProfileCall(t) =>
                /\ (fresh /\ ValidStrings(t) /\ snap[1][t.authority].lamports >= ProfileRent)
                      => result[1].err = OK
                /\ ~fresh => result[1].err = "AlreadyExists"

\* a later call of the same identity, with other strings at a later time,
\* refused
C4_Witness ==
    /\ DoneProfile /\ OwnProfileCall(tx[1])
    /\ result[1].err = "AlreadyExists"
    /\ snap[1][tx[1].user_profile].arweave_hash # tx[1].arweave_hash
    /\ snap[1][tx[1].user_profile].created_at < clock
    /\ ledger[tx[1].user_profile] = snap[1][tx[1].user_profile]

----------------------------------------------------------------------------
(* C9 and C10: two reward_user invocations of one batch *)

BothDone ==
    \A s \in Slots : phase[s] = "done" /\ tx[s].op = "reward_user"

\* the ledger after invocation t alone
Apply(L, t) == Commit(L, t, Run(L, t, clock))

\* slot a was loaded no later than slot b
LoadedFirst(a, b) == snap[b] \in {snap[a], Apply(snap[a], tx[a])}

\* the ledger the batch started from
Base == IF LoadedFirst(1, 2) THEN snap[1] ELSE snap[2]

\* what the batch left is what running a and then b, one after the other,
\* leaves, with the outcomes they have then
SerialOrder(a, b) ==
    LET L1 == Apply(Base, tx[a])
    IN /\ result[a].err = Run(Base, tx[a], clock).err
       /\ result[b].err = Run(L1, tx[b], clock).err
       /\ ledger = Apply(L1, tx[b])

\* either order gives each invocation the same outcome and the same ledger
OrderIndependent(L, t1, t2) ==
    /\ Run(L, t1, clock).err = Run(Apply(L, t2), t1, clock).err
    /\ Run(L, t2, clock).err = Run(Apply(L, t1), t2, clock).err
    /\ Apply(Apply(L, t1), t2) = Apply(Apply(L, t2), t1)

DifferentRecipients == BothDone /\ tx[1].user # tx[2].user
SameRecipient == BothDone /\ tx[1].user = tx[2].user /\ tx[1].mint = tx[2].mint

\* C9 as claimed: two reward_user invocations for different recipients touch
\* disjoint accounts, so the outcome of each is the same whichever runs
\* first.
C9_AsClaimed ==
    DifferentRecipients => OrderIndependent(Base, tx[1], tx[2])

\* C9 amended: two reward_user invocations for different recipients have
\* their own payer and recipient accounts but share the vault token account
\* of their mint; the outcome of each is the same whichever runs first when
\* they name different mints or the vault holds at least the sum of the two
\* amounts, and the batch leaves what the two leave one after the other.
C9_DifferentRecipients ==
    DifferentRecipients =>
        /\ Writable(tx[1]) \cap Writable(tx[2]) \subseteq
              {AssociatedTokenAddress(VaultAuthority, m) : m \in Mints}
        /\ (\/ tx[1].mint # tx[2].mint
            \/ Balance(Base, tx[1].vault_token_account) >= tx[1].amount + tx[2].amount)
              => /\ OrderIndependent(Base, tx[1], tx[2])
                 /\ SerialOrder(1, 2) /\ SerialOrder(2, 1)

\* two recipients paid from the same vault, which the two amounts empty
C9_Witness ==
    /\ DifferentRecipients
    /\ tx[1].mint = tx[2].mint
    /\ result[1].err = OK /\ result[2].err = OK
    /\ Balance(Base, tx[1].vault_token_account) = tx[1].amount + tx[2].amount
    /\ ledger[tx[1].vault_token_account].amount = 0
    /\ Created(Base, ledger) = {tx[1].user_token_account, tx[2].user_token_account}

\* amounts of the invocations of the batch that succeeded
Paid ==
    (IF result[1].err = OK THEN tx[1].amount ELSE 0)
        + (IF result[2].err = OK THEN tx[2].amount ELSE 0)

\* C10: two reward_user invocations for the same recipient and mint, however
\* the ledger schedules them, leave what the two leave run one after the
\* other in some order; at most one receiving account is created for the
\* pair, and what the vault lost is what the recipient gained, the sum of
\* the amounts of the invocations that succeeded.
C10_SameRecipientSerial ==
    SameRecipient =>
        LET v == tx[1].vault_token_account
            u == AssociatedTokenAddress(tx[1].user, tx[1].mint)
        IN /\ SerialOrder(1, 2) \/ SerialOrder(2, 1)
           /\ Created(Base, ledger) \subseteq {u}
           /\ RewardAccounts(ledger, tx[1].user, tx[1].mint) \subseteq {u}
           /\ Balance(Base, v) - Balance(ledger, v) = Paid
           /\ Balance(ledger, u) - Balance(Base, u) = Paid

\* two rewards of one batch for the same recipient: the first created the
\* account, the second was credited to it
C10_Witness ==
    /\ SameRecipient
    /\ result[1].err = OK /\ result[2].err = OK
    /\ ~IsToken(Base, tx[1].user_token_account)
    /\ ledger[tx[1].user_token_account].amount = tx[1].amount + tx[2].amount
    /\ snap[1] # snap[2]

----------------------------------------------------------------------------
(* C11 *)

Profiles(L) == {a \in Addrs : L[a].kind = "profile"}

\* a string of the call is longer than the bytes reserved for it
Oversized(t) == t.arweave_hash > FieldCap \/ t.goal > FieldCap

\* C11: each string has its own maximum: every stored UserProfile has an
\* arweave_hash of at most 100 bytes and a goal of at most 100 bytes, and an
\* initialize_user_profile where either string is longer is rejected and
\* creates no profile.
C11_EachStringBounded ==
    /\ \A a \in Profiles(ledger) :
          ledger[a].arweave_hash <= FieldCap /\ ledger[a].goal <= FieldCap
    /\ (DoneProfile /\ Oversized(tx[1])) =>
          /\ result[1].err # OK
          /\ ledger[tx[1].user_profile] = snap[1][tx[1].user_profile]

----------------------------------------------------------------------------
(* C12 *)

\* a token account in the recipient's position that is not the one bound to
\* (mint, recipient)
WrongUserToken(L, t) ==
    /\ IsToken(L, t.user_token_account)
    /\ t.user_token_account # AssociatedTokenAddress(t.user, t.mint)

\* a token account in the vault's position that is not the one bound to
\* (mint, VaultAuthority)
WrongVaultToken(L, t) ==
    /\ IsToken(L, t.vault_token_account)
    /\ t.vault_token_account # AssociatedTokenAddress(VaultAuthority, t.mint)

\* the vault's account of the mint was debited, the recipient's credited, and
\* no other token account changed
OnlyVaultAndRecipient(L0, t, L1) ==
    LET v == AssociatedTokenAddress(VaultAuthority, t.mint)
        u == AssociatedTokenAddress(t.user, t.mint)
    IN /\ t.vault_token_account = v /\ t.user_token_account = u
       /\ L1[v].mint = t.mint /\ L1[v].owner = VaultAuthority
       /\ L1[u].mint = t.mint /\ L1[u].owner = t.user
       /\ L1[v].amount = L0[v].amount - t.amount
       /\ L1[u].amount = Balance(L0, u) + t.amount
       /\ \A a \in TokenAddrs \ {u, v} : L1[a] = L0[a]

\* C12 as claimed: a successful reward_user debits only the token account of
\* (mint, VaultAuthority) and credits only the one of (mint, recipient); any
\* other token account in either position makes the invocation fail with
\* AccountMismatch, and no balance changes.
C12_AsClaimed ==
    DoneReward =>
        /\ result[1].err = OK => OnlyVaultAndRecipient(snap[1], tx[1], ledger)
        /\ (WrongUserToken(snap[1], tx[1]) \/ WrongVaultToken(snap[1], tx[1])) =>
              /\ result[1].err = "AccountMismatch"
              /\ BalancesUnchanged(snap[1], ledger)

\* C12 amended: the same debit and credit; any other token account in either
\* position makes the invocation fail and no balance changes; the failure is
\* AccountMismatch for a wrong recipient account, and for a wrong vault
\* account unless a check that runs before the vault account's fails: a
\* forged authority gives DerivationMismatch, a payer without the rent of a
\* recipient account that has to be created gives InsufficientLamports.
C12_OnlyBoundAccounts ==
    DoneReward =>
        /\ result[1].err = OK => OnlyVaultAndRecipient(snap[1], tx[1], ledger)
        /\ (WrongUserToken(snap[1], tx[1]) \/ WrongVaultToken(snap[1], tx[1])) =>
              /\ result[1].err \in AccountErrors
              /\ BalancesUnchanged(snap[1], ledger)
              /\ WrongUserToken(snap[1], tx[1]) => result[1].err = "AccountMismatch"
              /\ (tx[1].vault_authority = VaultAuthority /\ PayerFunded(snap[1], tx[1]))
                    => result[1].err = "AccountMismatch"
              /\ result[1].err = "DerivationMismatch" => tx[1].vault_authority # VaultAuthority
              /\ result[1].err = "InsufficientLamports" => ~PayerFunded(snap[1], tx[1])

\* a token account of (mint, VaultAuthority) that is not the bound one, with
\* enough tokens, refused in the vault's position
C12_Witness ==
    /\ DoneReward /\ WrongVaultToken(snap[1], tx[1])
    /\ tx[1].vault_authority = VaultAuthority
    /\ snap[1][tx[1].vault_token_account].owner = VaultAuthority
    /\ snap[1][tx[1].vault_token_account].mint = tx[1].mint
    /\ 0 < tx[1].amount /\ tx[1].amount <= snap[1][tx[1].vault_token_account].amount
    /\ result[1].err = "AccountMismatch"

----------------------------------------------------------------------------
(* C13 *)

\* every record that exists is the same after the step
ProfilesKeptByStep ==
    \A a \in Addrs : ledger[a].kind = "profile" => ledger'[a] = ledger[a]

\* C13: once a UserProfile is created, whatever initialize_user_profile and
\* reward_user invocations follow, by whatever callers, the record still
\* exists and its authority, arweave_hash, goal and created_at are the values
\* written at creation.
C13_ProfileNeverChanges == [][ProfilesKeptByStep]_vars

\* a reward paid to an identity whose profile was created at an earlier time,
\* and the profile as it was
C13_Witness ==
    /\ DoneReward /\ result[1].err = OK
    /\ snap[1][ProfileAddress(tx[1].user)].kind = "profile"
    /\ snap[1][ProfileAddress(tx[1].user)].created_at < clock
    /\ ledger[ProfileAddress(tx[1].user)] = snap[1][ProfileAddress(tx[1].user)]
    /\ Cardinality(Profiles(ledger)) = Cardinality(Users)

----------------------------------------------------------------------------
(* C14 *)

\* the records whose authority is identity u
ProfilesOf(L, u) == {a \in Profiles(L) : L[a].authority = u}

\* C14: in every reachable state there is at most one UserProfile per
\* identity, the record at the address derived from ("user_profile", X) has
\* authority X, and X is the signer of the call that created it: no caller
\* creates or overwrites a record addressed by another identity.
C14_OneProfilePerIdentity ==
    /\ \A u \in Users :
          /\ Cardinality(ProfilesOf(ledger, u)) <= 1
          /\ ledger[ProfileAddress(u)].kind = "profile"
                => ledger[ProfileAddress(u)].authority = u
    /\ Profiles(ledger) \subseteq ProfileAddrs
    /\ DoneProfile =>
          /\ result[1].err = OK =>
                /\ tx[1].signer = tx[1].authority
                /\ tx[1].user_profile = ProfileAddress(tx[1].signer)
                /\ Profiles(ledger) = Profiles(snap[1]) \cup {ProfileAddress(tx[1].signer)}
          /\ \A u \in Users \ {tx[1].signer} :
                ledger[ProfileAddress(u)] = snap[1][ProfileAddress(u)]

\* an identity's attempt on the address of another identity, which has no
\* record yet, refused; the caller's own record exists
C14_Witness ==
    /\ DoneProfile
    /\ tx[1].user_profile # ProfileAddress(tx[1].signer)
    /\ snap[1][tx[1].user_profile].kind = "system"
    /\ snap[1][tx[1].signer].lamports >= ProfileRent
    /\ result[1].err = "DerivationMismatch"
    /\ ProfilesOf(ledger, tx[1].signer) = {ProfileAddress(tx[1].signer)}

----------------------------------------------------------------------------
(* C15 *)

\* the accounts that differ between two ledgers
Changed(L0, L1) == {a \in Addrs : L0[a] # L1[a]}

\* C15: initialize_user_profile changes nothing but the new record (and the
\* signer's lamports that pay for it): every token account, every token
\* balance, every mint and every other identity's profile is as it was,
\* whether the call succeeds or fails; a failed call changes nothing at all.
C15_ProfileFrame ==
    DoneProfile =>
        /\ BalancesUnchanged(snap[1], ledger)
        /\ \A m \in Mints : ledger[m] = snap[1][m] /\ TokenTotal(ledger, m) = TokenTotal(snap[1], m)
        /\ \A u \in Users \ {tx[1].signer} : ledger[ProfileAddress(u)] = snap[1][ProfileAddress(u)]
        /\ Changed(snap[1], ledger) \subseteq {ProfileAddress(tx[1].signer), tx[1].signer}
        /\ result[1].err # OK => ledger = snap[1]

\* a profile created while a recipient holds tokens and the other identity
\* has its profile
C15_Witness ==
    /\ DoneProfile /\ result[1].err = OK
    /\ Changed(snap[1], ledger) = {ProfileAddress(tx[1].signer), tx[1].signer}
    /\ \E u \in Users, m \in Mints : Balance(snap[1], AssociatedTokenAddress(u, m)) > 0
    /\ \E u \in Users \ {tx[1].signer} : snap[1][ProfileAddress(u)].kind = "profile"

----------------------------------------------------------------------------
(* C16 *)

\* b is the bump the search from MaxBump downwards stops at
FirstValidBump(seeds, b) ==
    /\ b \in 0 .. MaxBump
    /\ ~OnCurve(seeds, b)
    /\ \A k \in (b + 1) .. MaxBump : OnCurve(seeds, k)

\* the invocation got as far as the seeds of the authority
ReachedSeeds(r) == Position(r.trace, Check("vault_seeds")) # 0

\* C16: the derivation of VaultAuthority does not depend on the caller, the
\* arguments or the ledger: every reward_user that reaches the seeds check
\* passes it exactly when the account supplied is the one address derived
\* from "vault", and the bump it finds is always the same, the first valid
\* one.
C16_SameDerivation ==
    DoneReward =>
        /\ ReachedSeeds(result[1]) =>
              (result[1].bump # -1 <=> tx[1].vault_authority = VaultAuthority)
        /\ result[1].bump # -1 =>
              /\ ReachedSeeds(result[1])
              /\ FirstValidBump(VaultSeeds, result[1].bump)
              /\ PdaAddress(VaultSeeds, result[1].bump) = tx[1].vault_authority

\* the derivation made for another caller and mint, on a ledger that rewards
\* have changed, in an invocation that fails afterwards
C16_Witness ==
    /\ DoneReward /\ result[1].bump # -1
    /\ tx[1].user = "u2" /\ tx[1].mint = "m2"
    /\ IsToken(snap[1], AssociatedTokenAddress("u1", "m1"))
    /\ snap[1][AssociatedTokenAddress(VaultAuthority, "m1")].amount < MaxVault
    /\ result[1].err = "InsufficientFunds"

----------------------------------------------------------------------------
(* C17 *)

\* account validation passed and the body began
ValidationPassed(r) == Position(r.trace, Check("amount")) # 0

\* the body presented its seeds to the token program
SeedsPresented(r) == Position(r.trace, Check("transfer_signer")) # 0

\* C17: the seeds reward_user presents to the transfer are "vault" and the
\* bump found when vault_authority was validated: whenever validation has
\* passed, the address the token program derives from them is the authority
\* account of the transfer, so the transfer is never refused for a missing
\* or mismatching signer, and tokens only move out of an account whose owner
\* is that authority.
C17_SeedsMatchAuthority ==
    DoneReward =>
        /\ ValidationPassed(result[1]) =>
              /\ CreateProgramAddress(VaultSeeds, result[1].bump) = tx[1].vault_authority
              /\ tx[1].vault_authority = VaultAuthority
        /\ SeedsPresented(result[1]) =>
              /\ ValidationPassed(result[1]) /\ tx[1].amount > 0
              /\ Position(result[1].trace, Check("vault_balance")) # 0
        /\ result[1].err # "MissingSigner"
        /\ Position(result[1].trace, Write("transfer")) # 0 =>
              /\ SeedsPresented(result[1])
              /\ snap[1][tx[1].vault_token_account].owner
                    = CreateProgramAddress(VaultSeeds, result[1].bump)

\* a transfer made on the seeds presented, for the second caller
C17_Witness ==
    /\ DoneReward /\ SeedsPresented(result[1])
    /\ result[1].err = OK
    /\ tx[1].user = "u2"
    /\ ledger[tx[1].user_token_account].amount = tx[1].amount

----------------------------------------------------------------------------
(* C18 *)

\* the signer claims a reward for itself with the accounts bound to it
SelfReward(L, t) ==
    /\ t = CanonicalReward(t.signer, t.mint, t.amount)
    /\ t.mint \in Mints
    /\ IsToken(L, t.vault_token_account)
    /\ 0 < t.amount /\ t.amount <= L[t.vault_token_account].amount

\* the token accounts that hold more than before
Credited(L0, L1) == {a \in TokenAddrs : Balance(L1, a) > Balance(L0, a)}

SignerCredited(L0, t, r, L1) ==
    LET u == AssociatedTokenAddress(t.signer, t.mint)
    IN /\ r.err = OK
       /\ IsToken(L1, u) /\ L1[u].owner = t.signer /\ L1[u].mint = t.mint
       /\ L1[u].amount = Balance(L0, u) + t.amount

\* no account of an identity that did not sign holds more than before
OnlySignerCredited(L0, t, L1) ==
    \A a \in Credited(L0, L1) : L1[a].owner = t.signer

\* C18 as claimed: reward_user asks no authorization of its caller and pays
\* the caller: for every identity that signs, every mint with a vault token
\* account and every amount with 0 < amount <= vault balance the invocation
\* succeeds and credits the account of (signer, mint); no invocation credits
\* an identity that did not sign it.
C18_AsClaimed ==
    DoneReward =>
        /\ SelfReward(snap[1], tx[1]) => SignerCredited(snap[1], tx[1], result[1], ledger)
        /\ OnlySignerCredited(snap[1], tx[1], ledger)

\* C18 amended: the same for every identity that signs and either has its
\* token account of the mint already or holds the rent to create it.
C18_AnySignerIsRecipient ==
    DoneReward =>
        /\ (SelfReward(snap[1], tx[1]) /\ PayerFunded(snap[1], tx[1]))
              => SignerCredited(snap[1], tx[1], result[1], ledger)
        /\ OnlySignerCredited(snap[1], tx[1], ledger)
        /\ result[1].err = OK =>
              /\ tx[1].user = tx[1].signer
              /\ Credited(snap[1], ledger) = {AssociatedTokenAddress(tx[1].signer, tx[1].mint)}

\* the second identity takes the whole vault of a mint into an account
\* created for it
C18_Witness ==
    /\ DoneReward /\ SelfReward(snap[1], tx[1])
    /\ tx[1].signer = "u2"
    /\ ~IsToken(snap[1], tx[1].user_token_account)
    /\ tx[1].amount = snap[1][tx[1].vault_token_account].amount
    /\ SignerCredited(snap[1], tx[1], result[1], ledger)

----------------------------------------------------------------------------
(* C19 *)

\* the vault of a mint and what the recipients hold of it
VaultOf(m) == AssociatedTokenAddress(VaultAuthority, m)
RecipientTotal(L, m) == SumOver(L, {AssociatedTokenAddress(u, m) : u \in Users})

\* what the step pays out of the vault of mint m: the amount of the
\* reward_user on m that the step executes with success, else nothing
PaidByStep(m) ==
    IF /\ phase[1] = "running" /\ phase'[1] = "done"
       /\ tx[1].op = "reward_user" /\ tx[1].mint = m
       /\ result'[1].err = OK
    THEN tx[1].amount
    ELSE 0

\* the vault loses what the step pays, the recipients gain it, and no
\* recipient account loses tokens
VaultOnlyPaysOut ==
    \A m \in Mints :
        /\ Balance(ledger', VaultOf(m)) = Balance(ledger, VaultOf(m)) - PaidByStep(m)
        /\ RecipientTotal(ledger', m) = RecipientTotal(ledger, m) + PaidByStep(m)
        /\ \A u \in Users :
              Balance(ledger', AssociatedTokenAddress(u, m))
                  >= Balance(ledger, AssociatedTokenAddress(u, m))

\* the vault is not overdrawn and holds its initial balance less what the
\* recipients hold
VaultBalanced ==
    \A m \in Mints :
        /\ Balance(ledger, VaultOf(m)) >= 0
        /\ Balance(ledger, VaultOf(m)) = MaxVault - RecipientTotal(ledger, m)

\* C19: after any sequence of invocations, for each mint the vault balance is
\* never negative and is its initial balance less the amounts of the
\* reward_user invocations that succeeded, which is what the recipients'
\* accounts hold together: each step takes out of the vault exactly the
\* amount of the reward it executes with success, puts it into recipients'
\* accounts, and takes nothing out of a recipient's account.
C19_VaultConservation == [](VaultBalanced) /\ [][VaultOnlyPaysOut]_vars

\* a vault emptied into the accounts of two recipients
C19_Witness ==
    /\ DoneReward /\ result[1].err = OK
    /\ Balance(ledger, VaultOf(tx[1].mint)) = 0
    /\ \A u \in Users : Balance(ledger, AssociatedTokenAddress(u, tx[1].mint)) > 0
    /\ RecipientTotal(ledger, tx[1].mint) = MaxVault

====
